---- MODULE Spec2Model ----
(***************************************************************************)
(* Model of the LangGraph company scraper                                  *)
(* (src/src/scraper/langgraph_scraper.py).                                 *)
(*                                                                         *)
(* One run of LangGraphScraper.scrape() is a walk through the compiled     *)
(* graph: the nodes scrape_website, search_google and extract_info each    *)
(* transform the ScraperState, and the conditional edges scrape_router,    *)
(* search_router and extract_router choose the next node or END.           *)
(* The collaborators (HTTP fetch, search provider, LLM) are nondeterministic*)
(* inputs of the node that calls them.                                     *)
(*                                                                         *)
(* Confidence scores are modelled in hundredths (0.7 is 70).               *)
(* extract_links is modelled as the total function its source text is:     *)
(* library calls inside it are assumed not to raise.                       *)
(***************************************************************************)
EXTENDS Integers, Sequences, FiniteSets, TLC

(***************************************************************************)
(* Bounds of the model (not program constants).                            *)
(***************************************************************************)
\* the largest number of <a href> anchors on a fetched page
MaxAnchors == 2
\* the largest number of result URLs the search provider returns in the model
\* (the program asks for NumResults)
MaxResults == 2
\* the step counter `steps` saturates at this value
StepCap == 3

(***************************************************************************)
(* Program constants.                                                      *)
(***************************************************************************)
\* scrape_website line 89, router lines 266/306: navigation_tries budget
MaxNavigationTries == 5
\* search_google line 126, router lines 270/310: search_tries budget
MaxSearchTries == 5
\* search_google line 141: google_search(query, num_results=3)
NumResults == 3
\* a mutant of RouterThreshold: the 0.75 of CompanyInfo.is_complete
RouterThreshold_IsComplete == 75
\* extract_router line 298: confidence < 0.7
RouterThreshold == 70

(***************************************************************************)
(* URLs are strings; a string is modelled as a tuple of characters so that *)
(* the substring test "base_url in full_url" can be computed.              *)
(***************************************************************************)
SeedUrl == <<1>>
UrlA == <<1, 2>>
UrlX == <<3>>
Urls == {SeedUrl, UrlA, UrlX}

\* Python's `s in t` for strings
IsSubstring(s, t) ==
    \E i \in 0..(Len(t) - Len(s)) : SubSeq(t, i + 1, i + Len(s)) = s

\* page texts that survive `content.strip()`
Texts == {1}

\* field values: Empty is "" or [], Absent is a key the LLM left out
Absent == -1
Empty == 0
Values == {1, 2}
\* the company name passed to scrape()
CompanyName == 1

\* confidence_scores entries; NoScore marks an absent key
NoScore == -1

FieldOrder ==
    <<"company_name", "company_location", "products_or_services",
      "company_overview", "target_clients">>
Fields == {FieldOrder[i] : i \in 1..Len(FieldOrder)}
RouterFields ==
    <<"company_location", "products_or_services", "company_overview",
      "target_clients">>

(***************************************************************************)
(* Sequence and ordered-dict helpers (Python list / dict semantics).       *)
(***************************************************************************)
Range(s) == {s[i] : i \in 1..Len(s)}

\* all sequences over S of length at most n
SeqUpTo(S, n) == UNION {[1..k -> S] : k \in 0..n}

\* `content` is a Python dict: a sequence of <<key, value>> pairs in
\* insertion order, at most one pair per key
DictKeys(d) == [i \in 1..Len(d) |-> d[i][1]]
DictHas(d, k) == \E i \in 1..Len(d) : d[i][1] = k
\* d[k] = v : overwrite in place, or append a new key
DictSet(d, k, v) ==
    IF DictHas(d, k)
    THEN [i \in 1..Len(d) |-> IF d[i][1] = k THEN <<k, v>> ELSE d[i]]
    ELSE Append(d, <<k, v>>)

VARIABLES
    state,   \* the ScraperState dict handed from node to node
    pc,      \* the graph node that runs next, or "END"
    last,    \* the node that ran last, with its collaborator outcome
    steps,   \* number of nodes run so far, saturating at StepCap
    record,  \* a models.company_info.CompanyInfo object
    result,  \* the method last called on record, with what it returned
    setup,   \* the parameters a RateLimit is built with, and how that ended
    limits,  \* RateLimiter._limits: the RateLimit object of each API name
    threads, \* each thread's position inside wait_if_needed
    rt,      \* a call of retry(...): its parameters and how it ended
    manager, \* the MetricsManager: who holds _lock, the files of metrics_dir
    callers  \* each thread's position inside a MetricsManager method

scraper_vars == <<state, pc, last, steps>>
record_vars == <<record, result>>
limiter_vars == <<setup, limits, threads>>
metrics_vars == <<manager, callers>>
utils_vars == <<setup, limits, threads, rt, manager, callers>>
vars ==
    <<state, pc, last, steps, record, result, setup, limits, threads, rt,
      manager, callers>>

(***************************************************************************)
(* create_initial_state                                                    *)
(***************************************************************************)
InitialCompanyInfo ==
    [company_name |-> CompanyName,
     company_location |-> Empty,
     products_or_services |-> Empty,
     company_overview |-> Empty,
     target_clients |-> Empty,
     sources |-> <<>>,
     confidence_scores |-> [f \in Fields |-> NoScore]]

create_initial_state(company_name, website_url) ==
    [company_name |-> company_name,
     website_url |-> website_url,
     company_info |-> [InitialCompanyInfo EXCEPT !.company_name = company_name],
     current_url |-> website_url,
     visited_urls |-> <<>>,
     content |-> <<>>,
     navigation_tries |-> 0,
     search_tries |-> 0,
     mode |-> "website",
     error |-> "None"]

(***************************************************************************)
(* Collaborator inputs                                                     *)
(***************************************************************************)
\* what requests.get + raise_for_status + text extraction can do
FetchOutcomes == {"ok", "http_error", "network_error", "empty"}

\* an <a href> of a fetched page: the URL urljoin resolves its lower-cased
\* href to, and whether its href or text contains a relevant keyword; one
\* anchor without keyword stands for all of them
Anchors ==
    [full_url : Urls, kw : {TRUE}] \cup {[full_url |-> UrlA, kw |-> FALSE]}
Pages == SeqUpTo(Anchors, MaxAnchors)

(***************************************************************************)
(* extract_links                                                           *)
(***************************************************************************)
RECURSIVE ExtractLinksFrom(_, _, _)
ExtractLinksFrom(anchors, base_url, i) ==
    IF i > Len(anchors) THEN <<>>
    ELSE IF anchors[i].kw /\ IsSubstring(base_url, anchors[i].full_url)
         THEN <<anchors[i].full_url>> \o ExtractLinksFrom(anchors, base_url, i + 1)
         ELSE ExtractLinksFrom(anchors, base_url, i + 1)

extract_links(anchors, base_url) == ExtractLinksFrom(anchors, base_url, 1)

(***************************************************************************)
(* scrape_website                                                          *)
(***************************************************************************)
\* a mutant of UnvisitedLinks: visited links are not filtered out
UnvisitedLinks_NoFilter(links, visited) == links

\* [url for url in links if url not in state["visited_urls"]]
UnvisitedLinks(links, visited) ==
    SelectSeq(links, LAMBDA u : u \notin Range(visited))

\* the try body when the fetch succeeded with non-empty text
ScrapeSuccess(s, text, anchors) ==
    LET s1 == [s EXCEPT !.content = DictSet(@, s.current_url, text),
                        !.visited_urls = Append(@, s.current_url)]
        links == extract_links(anchors, s1.website_url)
        unvisited_links == UnvisitedLinks(links, s1.visited_urls)
        s2 == IF unvisited_links # <<>>
              THEN [s1 EXCEPT !.current_url = unvisited_links[1]]
              ELSE s1
    IN  [s2 EXCEPT !.navigation_tries = @ + 1]

\* the except branch: "Always switch to Google on any error"
ScrapeFailure(s) == [s EXCEPT !.mode = "google"]

\* a mutant of scrape_website: the empty-content check is missing
scrape_website_NoEmptyCheck(s, fetch, text, anchors) ==
    IF s.navigation_tries >= MaxNavigationTries
    THEN [s EXCEPT !.mode = "google"]
    ELSE IF fetch \in {"ok", "empty"} THEN ScrapeSuccess(s, text, anchors)
         ELSE ScrapeFailure(s)

scrape_website(s, fetch, text, anchors) ==
    IF s.navigation_tries >= MaxNavigationTries
    THEN [s EXCEPT !.mode = "google"]
    ELSE IF fetch = "ok" THEN ScrapeSuccess(s, text, anchors)
         ELSE ScrapeFailure(s)

(***************************************************************************)
(* search_google                                                           *)
(***************************************************************************)
\* list(google_search(query, num_results=3)) either raises or yields URLs
ProviderOutcomes == {"ok", "provider_error"}
ResultLists == SeqUpTo(Urls, IF MaxResults < NumResults THEN MaxResults ELSE NumResults)
\* the outcome of the fetch of the i-th result URL; a URL that is in
\* visited_urls when the step starts is not fetched
RECURSIVE ResultFetchesFrom(_, _, _)
ResultFetchesFrom(s, results, i) ==
    IF i > Len(results) THEN {<<>>}
    ELSE {<<o>> \o rest :
            o \in (IF results[i] \in Range(s.visited_urls)
                   THEN {"skipped"}
                   ELSE {"ok", "http_error", "empty"}),
            rest \in ResultFetchesFrom(s, results, i + 1)}

ResultFetches(s, results) == ResultFetchesFrom(s, results, 1)

\* a mutant of RecordPage: the page text is kept, the visit is not recorded
RecordPage_NoVisit(s, url, text) ==
    [s EXCEPT !.content = DictSet(@, url, text)]

\* state["content"][url] = content; state["visited_urls"].append(url)
RecordPage(s, url, text) ==
    [s EXCEPT !.content = DictSet(@, url, text),
              !.visited_urls = Append(@, url)]

\* a mutant of SearchLoop: a failing fetch ends the loop (break, not continue)
RECURSIVE SearchLoop_AbortOnFailure(_, _, _, _, _)
SearchLoop_AbortOnFailure(s, results, fetches, text, i) ==
    IF i > Len(results) THEN s
    ELSE LET url == results[i] IN
         IF url \in Range(s.visited_urls)
         THEN SearchLoop_AbortOnFailure(s, results, fetches, text, i + 1)
         ELSE IF fetches[i] = "ok"
              THEN SearchLoop_AbortOnFailure(RecordPage(s, url, text), results,
                                             fetches, text, i + 1)
              ELSE s

\* the `for url in results` loop, from position i on
RECURSIVE SearchLoop(_, _, _, _, _)
SearchLoop(s, results, fetches, text, i) ==
    IF i > Len(results) THEN s
    ELSE LET url == results[i] IN
         IF url \notin Range(s.visited_urls) /\ fetches[i] = "ok"
         THEN SearchLoop(RecordPage(s, url, text), results, fetches, text,
                         i + 1)
         ELSE SearchLoop(s, results, fetches, text, i + 1)

\* a mutant of search_google: search_tries is incremented inside the loop,
\* once per result URL
search_google_IncPerUrl(s, provider, results, fetches, text) ==
    IF s.search_tries >= MaxSearchTries THEN s
    ELSE IF provider = "ok"
         THEN [SearchLoop(s, results, fetches, text, 1)
                  EXCEPT !.search_tries = @ + Len(results)]
         ELSE s

search_google(s, provider, results, fetches, text) ==
    IF s.search_tries >= MaxSearchTries THEN s
    ELSE IF provider = "ok"
         THEN [SearchLoop(s, results, fetches, text, 1)
                  EXCEPT !.search_tries = @ + 1]
         ELSE s

(***************************************************************************)
(* extract_info                                                            *)
(***************************************************************************)
NonNameFields == Fields \ {"company_name"}

\* a JSON object naming the fields of S with value v and confidence c
Resp(S, v, c) ==
    [kind |-> "json",
     fields |-> [f \in Fields |-> IF f \in S THEN v ELSE Empty],
     has_cs |-> TRUE,
     cs |-> [f \in Fields |-> IF f \in S THEN c ELSE NoScore]]

\* llm.invoke or json.loads raises (no API key, transport error, text that
\* is not JSON)
RaiseResponse ==
    [kind |-> "raise",
     fields |-> [f \in Fields |-> Absent],
     has_cs |-> FALSE,
     cs |-> [f \in Fields |-> NoScore]]

NoResponse == [RaiseResponse EXCEPT !.kind = "none"]

Responses ==
    { \* all five fields at confidence 0.9
      Resp(Fields, 1, 90),
      \* the four non-name fields at exactly 0.7
      Resp(NonNameFields, 1, 70),
      \* other values at a lower confidence
      Resp(Fields, 2, 69),
      \* nothing found
      Resp({}, 1, 90),
      \* llm.invoke or json.loads raises
      RaiseResponse,
      \* a confidence outside [0, 1]
      Resp(Fields, 1, 150),
      \* a JSON object without the "confidence_scores" key
      [Resp(Fields, 1, 90) EXCEPT !.has_cs = FALSE,
                                  !.cs = [f \in Fields |-> NoScore]],
      \* a JSON object whose confidence_scores lacks company_overview
      [Resp(NonNameFields, 2, 90) EXCEPT !.cs["company_overview"] = NoScore] }

\* a mutant of MergeFields: a field the LLM returned empty is written too
RECURSIVE MergeFields_WritesEmpty(_, _, _)
MergeFields_WritesEmpty(info, resp, i) ==
    IF i > Len(FieldOrder) THEN [info |-> info, raised |-> FALSE]
    ELSE LET field == FieldOrder[i] IN
         IF resp.fields[field] # Absent
         THEN LET info1 == [info EXCEPT ![field] = resp.fields[field]] IN
              IF resp.has_cs /\ resp.cs[field] # NoScore
              THEN MergeFields_WritesEmpty(
                       [info1 EXCEPT !.confidence_scores[field] =
                                         resp.cs[field]],
                       resp, i + 1)
              ELSE MergeFields_WritesEmpty(info1, resp, i + 1)
         ELSE MergeFields_WritesEmpty(info, resp, i + 1)

\* the `for field in [...]` loop from position i on; raised is the KeyError
\* of extracted_info["confidence_scores"][field]
RECURSIVE MergeFields(_, _, _)
MergeFields(info, resp, i) ==
    IF i > Len(FieldOrder) THEN [info |-> info, raised |-> FALSE]
    ELSE LET field == FieldOrder[i] IN
         IF resp.fields[field] \notin {Absent, Empty}
         THEN LET info1 == [info EXCEPT ![field] = resp.fields[field]] IN
              IF resp.has_cs
              THEN IF resp.cs[field] = NoScore
                   THEN [info |-> info1, raised |-> TRUE]
                   ELSE MergeFields(
                            [info1 EXCEPT !.confidence_scores[field] =
                                              resp.cs[field]],
                            resp, i + 1)
              ELSE MergeFields(info1, resp, i + 1)
         ELSE MergeFields(info, resp, i + 1)

\* a mutant of AddSources: every key is appended, listed before or not
AddSources_NoFilter(info, c) == [info EXCEPT !.sources = @ \o DictKeys(c)]

\* sources.extend([url for url in content.keys() if url not in sources])
AddSources(info, c) ==
    [info EXCEPT !.sources =
        @ \o SelectSeq(DictKeys(c), LAMBDA u : u \notin Range(info.sources))]

ErrorMessage == "Information extraction failed"

\* the except branch of extract_info is taken
ExtractRaises(s, resp) ==
    /\ s.content # <<>>
    /\ \/ resp.kind = "raise"
       \/ MergeFields(s.company_info, resp, 1).raised

\* a mutant of extract_info: no `if not state["content"]` guard
extract_info_NoContentGuard(s, resp) ==
    IF resp.kind = "raise" THEN [s EXCEPT !.error = ErrorMessage]
    ELSE LET m == MergeFields(s.company_info, resp, 1) IN
         IF m.raised
         THEN [s EXCEPT !.company_info = m.info, !.error = ErrorMessage]
         ELSE [s EXCEPT !.company_info = AddSources(m.info, s.content)]

\* a mutant of extract_info: a successful extraction resets error
extract_info_ClearsError(s, resp) ==
    IF s.content = <<>> THEN s
    ELSE IF resp.kind = "raise" THEN [s EXCEPT !.error = ErrorMessage]
    ELSE LET m == MergeFields(s.company_info, resp, 1) IN
         IF m.raised
         THEN [s EXCEPT !.company_info = m.info, !.error = ErrorMessage]
         ELSE [s EXCEPT !.company_info = AddSources(m.info, s.content),
                        !.error = "None"]

extract_info(s, resp) ==
    IF s.content = <<>> THEN s
    ELSE IF resp.kind = "raise" THEN [s EXCEPT !.error = ErrorMessage]
    ELSE LET m == MergeFields(s.company_info, resp, 1) IN
         IF m.raised
         THEN [s EXCEPT !.company_info = m.info, !.error = ErrorMessage]
         ELSE [s EXCEPT !.company_info = AddSources(m.info, s.content)]

(***************************************************************************)
(* Routers                                                                 *)
(***************************************************************************)
\* confidence_scores.get(field, 0.0)
GetConfidence(info, f) ==
    IF info.confidence_scores[f] = NoScore THEN 0
    ELSE info.confidence_scores[f]

\* the has_all_info loop of router / extract_router
RECURSIVE HasAllInfoFrom(_, _)
HasAllInfoFrom(info, i) ==
    IF i > Len(RouterFields) THEN TRUE
    ELSE IF info[RouterFields[i]] = Empty
            \/ GetConfidence(info, RouterFields[i]) < RouterThreshold
         THEN FALSE
         ELSE HasAllInfoFrom(info, i + 1)

has_all_info(s) == HasAllInfoFrom(s.company_info, 1)

\* a mutant of scrape_router: no extraction once the mode is "google"
scrape_router_ChecksMode(s) ==
    IF s.content # <<>> /\ s.mode = "website" THEN "extract_info" ELSE "END"

scrape_router(s) == IF s.content # <<>> THEN "extract_info" ELSE "END"

search_router(s) == IF s.content # <<>> THEN "extract_info" ELSE "END"

\* a mutant of extract_router: one search more than the budget
extract_router_SearchOneMore(s) ==
    IF has_all_info(s) THEN "END"
    ELSE IF s.mode = "website" /\ s.navigation_tries < MaxNavigationTries
         THEN "scrape_website"
    ELSE IF s.mode = "google" /\ s.search_tries <= MaxSearchTries
         THEN "search_google"
    ELSE "END"

\* a mutant of extract_router: the website is tried again whatever the mode
extract_router_RetriesWebsite(s) ==
    IF has_all_info(s) THEN "END"
    ELSE IF s.navigation_tries < MaxNavigationTries THEN "scrape_website"
    ELSE IF s.mode = "google" /\ s.search_tries < MaxSearchTries
         THEN "search_google"
    ELSE "END"

\* a mutant of extract_router: the budgets are looked at before has_all_info
extract_router_BudgetFirst(s) ==
    IF s.mode = "website" /\ s.navigation_tries < MaxNavigationTries
    THEN "scrape_website"
    ELSE IF s.mode = "google" /\ s.search_tries < MaxSearchTries
         THEN "search_google"
    ELSE "END"

extract_router(s) ==
    IF has_all_info(s) THEN "END"
    ELSE IF s.mode = "website" /\ s.navigation_tries < MaxNavigationTries
         THEN "scrape_website"
    ELSE IF s.mode = "google" /\ s.search_tries < MaxSearchTries
         THEN "search_google"
    ELSE "END"

(***************************************************************************)
(* The compiled graph: LangGraphScraper.__init__ and scrape                *)
(***************************************************************************)
\* what `last` holds when no node has recorded anything in a field
NoLast ==
    [node |-> "none", outcome |-> "none", resp |-> NoResponse,
     text |-> 0, anchors |-> <<>>, fetched |-> {}, failed |-> {}]

\* the result URLs whose fetch gave the outcomes in `kinds`
UrlsWithOutcome(results, fetches, kinds) ==
    {results[i] : i \in {j \in 1..Len(results) : fetches[j] \in kinds}}

(***************************************************************************)
(* utils/rate_limiter.py                                                   *)
(*                                                                         *)
(* Every `with self._lock` block is one atomic step; a thread can be       *)
(* preempted between any two of them.  Time is counted in steps of         *)
(* TickSeconds; age stands for time.time() - _window_start and stops       *)
(* growing at Window, from where on every test of it gives the same.       *)
(***************************************************************************)
NumThreads == 2
MaxCallsPerMinute == 2
MaxRetriesBound == 1

Window == 60
TickSeconds == 30

Threads == 1..NumThreads
\* RateLimiter() builds a RateLimit for "anthropic", "google_search" and
\* "web_scrape".  The three objects share nothing and wait_if_needed only
\* touches self._limits[api_name], so the model keeps one of them.
ConfiguredApis == {"anthropic"}
ApiNames == ConfiguredApis \cup {"unknown"}

Min(a, b) == IF a < b THEN a ELSE b
Max(a, b) == IF a < b THEN b ELSE a

\* RateLimit.__post_init__ accepts the parameters
RateLimitValid(calls_per_minute, max_retries) ==
    ~ (calls_per_minute <= 0) /\ ~ (max_retries < 0)

\* RateLimit(calls_per_minute, max_retries) right after construction
RateLimit(calls_per_minute, max_retries) ==
    [calls_per_minute |-> calls_per_minute,
     max_retries |-> max_retries,
     call_count |-> 0,
     age |-> 0]

\* the body of _reset_if_needed
reset_if_needed(l) ==
    IF l.age >= Window THEN [l EXCEPT !.call_count = 0, !.age = 0] ELSE l

\* the locked read of can_proceed
can_proceed(l) == l.call_count < l.calls_per_minute

\* the locked read of wait_time
wait_time(l) == Max(0, Window - l.age)

record_call(l) == [l EXCEPT !.call_count = @ + 1]

MaxRetryCount == 2
MaxDelay == 2
MaxBase == 2

\* a mutant of RetryConfigValid: max_delay equal to initial_delay is refused
RetryConfigValid_Strict(max_retries, initial_delay, max_delay, exponential_base) ==
    /\ ~ (max_retries < 0)
    /\ ~ (initial_delay <= 0)
    /\ ~ (max_delay <= initial_delay)
    /\ ~ (exponential_base <= 1)

\* none of the four tests of retry() (lines 60-67) raises RetryConfigError
RetryConfigValid(max_retries, initial_delay, max_delay, exponential_base) ==
    /\ ~ (max_retries < 0)
    /\ ~ (initial_delay <= 0)
    /\ ~ (max_delay < initial_delay)
    /\ ~ (exponential_base <= 1)

\* a mutant of RetriesExhausted: one more wait is allowed
RetriesExhausted_OneMore(retries, limit) == retries > limit.max_retries

\* `if retries >= limit.max_retries`
RetriesExhausted(retries, limit) == retries >= limit.max_retries

\* a thread outside wait_if_needed; a thread that has left it keeps how the
\* call ended in outcome, the name it asked for when that name is not
\* configured, and the number of its waits when it raised
IdleThread ==
    [pc |-> "idle", api |-> "none", retries |-> 0, sleep |-> 0,
     outcome |-> "none"]

NoSetup == [calls_per_minute |-> 0, max_retries |-> 0, status |-> "none"]
NoLimits == [a \in {} |-> 0]
NoRetry ==
    [max_retries |-> 0, initial_delay |-> 0, max_delay |-> 0,
     exponential_base |-> 0, jitter |-> FALSE, exceptions |-> "None",
     status |-> "none", attempt |-> 0, invocations |-> 0, out |-> "none",
     sleeps |-> 0, delay |-> 0]

(***************************************************************************)
(* utils/metrics.py: MetricsManager.  _lock is a threading.Lock, which is  *)
(* not reentrant: acquire waits until the lock is free, whoever holds it.  *)
(***************************************************************************)
MaxFiles == 2
\* the *.json files metrics_dir can hold
FileNames == 1..MaxFiles
\* _lock is held by nobody
Free == 0

IdleCaller ==
    [pc |-> "idle", method |-> "none", filename |-> 0, todo |-> {},
     metrics |-> {}, outcome |-> "none"]

\* a MetricsManager whose directory holds no file
NoManager == [lock |-> Free, files |-> [f \in FileNames |-> "none"]]

\* self.metrics_dir.glob("*.json")
JsonFiles(m) == {f \in FileNames : m.files[f] # "none"}

MetricsIdle ==
    /\ manager = NoManager
    /\ callers = [t \in Threads |-> IdleCaller]

\* the utilities are not in use
UtilsIdle ==
    /\ setup = NoSetup
    /\ limits = NoLimits
    /\ threads = [t \in Threads |-> IdleThread]
    /\ rt = NoRetry
    /\ MetricsIdle

(***************************************************************************)
(* models/company_info.py: the pydantic model CompanyInfo                  *)
(***************************************************************************)
\* None, the default of the five Optional[str] fields
Null == -2
\* what a field holds: None, "" or a text
FieldValues == {Null, Empty, 1}
\* confidence_scores entries in hundredths, NoScore for a key not present
Confidences == {NoScore, 74, 75}

CompleteThreshold == 75
MissingThreshold == 75

\* CompanyInfo(**vals, confidence_scores=cs)
CompanyInfoModel(vals, cs) ==
    [company_name |-> vals["company_name"],
     company_location |-> vals["company_location"],
     products_or_services |-> vals["products_or_services"],
     company_overview |-> vals["company_overview"],
     target_clients |-> vals["target_clients"],
     sources |-> <<>>,
     confidence_scores |-> cs,
     evidence |-> <<>>]

CompanyInfos ==
    {CompanyInfoModel(vals, cs) :
        vals \in [Fields -> FieldValues], cs \in [Fields -> Confidences]}

\* CompanyInfo()
DefaultCompanyInfo ==
    CompanyInfoModel([f \in Fields |-> Null], [f \in Fields |-> NoScore])

\* self.confidence_scores.get(field, 0.0)
ConfidenceGet(self, field) ==
    IF self.confidence_scores[field] = NoScore
    THEN 0 ELSE self.confidence_scores[field]

\* a mutant of is_complete: company_name is left out of both checks
is_complete_SkipsName(self) ==
    /\ \A i \in 1..Len(RouterFields) : self[RouterFields[i]] # Null
    /\ \A i \in 1..Len(RouterFields) :
          ConfidenceGet(self, RouterFields[i]) >= CompleteThreshold

is_complete(self) ==
    IF ~ (\A i \in 1..Len(FieldOrder) : self[FieldOrder[i]] # Null)
    THEN FALSE
    ELSE \A i \in 1..Len(FieldOrder) :
            ConfidenceGet(self, FieldOrder[i]) >= CompleteThreshold

\* the `for field in [...]` loop of get_missing_fields from position i on
RECURSIVE MissingFrom(_, _, _)
MissingFrom(self, missing, i) ==
    IF i > Len(FieldOrder) THEN missing
    ELSE LET field == FieldOrder[i] IN
         IF \/ self[field] = Null
            \/ ConfidenceGet(self, field) < MissingThreshold
         THEN MissingFrom(self, Append(missing, field), i + 1)
         ELSE MissingFrom(self, missing, i + 1)

get_missing_fields(self) == MissingFrom(self, <<>>, 1)

\* sum(...) and len(...) over the first i positions of FieldOrder, entries
\* without a score left out: the values of the confidence_scores dict
RECURSIVE SumValues(_, _)
SumValues(cs, i) ==
    IF i = 0 THEN 0
    ELSE SumValues(cs, i - 1) +
         (IF cs[FieldOrder[i]] = NoScore THEN 0 ELSE cs[FieldOrder[i]])

RECURSIVE LenValues(_, _)
LenValues(cs, i) ==
    IF i = 0 THEN 0
    ELSE LenValues(cs, i - 1) + (IF cs[FieldOrder[i]] = NoScore THEN 0 ELSE 1)

\* a mutant of calculate_average_confidence: divides by the number of fields
calculate_average_confidence_PerField(self) ==
    [num |-> SumValues(self.confidence_scores, Len(FieldOrder)),
     den |-> Len(FieldOrder)]

\* the returned float as the fraction num / den (in hundredths)
calculate_average_confidence(self) ==
    IF LenValues(self.confidence_scores, Len(FieldOrder)) = 0
    THEN [num |-> 0, den |-> 1]
    ELSE [num |-> SumValues(self.confidence_scores, Len(FieldOrder)),
          den |-> LenValues(self.confidence_scores, Len(FieldOrder))]

NoResult == [op |-> "none", value |-> FALSE]

Init ==
    /\ state = create_initial_state(CompanyName, SeedUrl)
    /\ pc = "scrape_website"
    /\ last = [NoLast EXCEPT !.node = "start"]
    /\ steps = 0
    /\ record = DefaultCompanyInfo
    /\ result = NoResult
    /\ UtilsIdle

NextSteps == IF steps < StepCap THEN steps + 1 ELSE steps

\* node scrape_website followed by its conditional edge
ScrapeWebsite ==
    /\ pc = "scrape_website"
    /\ \E fetch \in FetchOutcomes, text \in Texts :
       \E anchors \in (IF fetch = "ok" THEN Pages ELSE {<<>>}) :
          LET s2 == scrape_website(state, fetch, text, anchors) IN
          /\ state' = s2
          /\ pc' = scrape_router(s2)
          /\ last' = [NoLast EXCEPT !.node = "scrape_website",
                                     !.outcome = fetch,
                                     !.text = text,
                                     !.anchors = anchors]
    /\ steps' = NextSteps
    /\ UNCHANGED <<record_vars, utils_vars>>

\* node search_google followed by its conditional edge
SearchGoogle ==
    /\ pc = "search_google"
    /\ \E provider \in ProviderOutcomes, text \in Texts :
       \E results \in (IF provider = "ok" THEN ResultLists ELSE {<<>>}) :
       \E fetches \in ResultFetches(state, results) :
          LET s2 == search_google(state, provider, results, fetches, text) IN
          /\ state' = s2
          /\ pc' = search_router(s2)
          /\ last' = [NoLast EXCEPT
                         !.node = "search_google",
                         !.outcome = provider,
                         !.text = text,
                         !.fetched = UrlsWithOutcome(results, fetches, {"ok"}),
                         !.failed = UrlsWithOutcome(results, fetches,
                                                    {"http_error", "empty"})]
    /\ steps' = NextSteps
    /\ UNCHANGED <<record_vars, utils_vars>>

\* node extract_info followed by its conditional edge
ExtractInfo ==
    /\ pc = "extract_info"
    /\ \E resp \in Responses :
          LET s2 == extract_info(state, resp) IN
          /\ state' = s2
          /\ pc' = extract_router(s2)
          /\ last' = [NoLast EXCEPT
                         !.node = "extract_info",
                         !.outcome = IF ExtractRaises(state, resp)
                                     THEN "error" ELSE "ok",
                         !.resp = resp]
    /\ steps' = NextSteps
    /\ UNCHANGED <<record_vars, utils_vars>>

Next == ScrapeWebsite \/ SearchGoogle \/ ExtractInfo

Spec == Init /\ [][Next]_vars

\* the graph runtime runs the next node whenever there is one
FairSpec == Spec /\ WF_vars(Next)

(***************************************************************************)
(* The node extract_info called on its own, as a plain function of a       *)
(* ScraperState: the graph never reaches it with an empty content dict,    *)
(* a direct caller can.                                                    *)
(***************************************************************************)
\* records an earlier extraction can have left behind
NodeInfos ==
    {InitialCompanyInfo} \cup
    {MergeFields(InitialCompanyInfo, r, 1).info :
        r \in {x \in Responses : x.kind = "json"}}

NodeContents ==
    {<<>>, <<(<<SeedUrl, 1>>)>>, <<(<<SeedUrl, 1>>), (<<UrlA, 1>>)>>}

NodeStates ==
    {[create_initial_state(CompanyName, SeedUrl) EXCEPT
         !.company_info = i,
         !.content = c,
         !.visited_urls = DictKeys(c)] : i \in NodeInfos, c \in NodeContents}

NodeInit ==
    /\ state \in NodeStates
    /\ pc = "extract_info"
    /\ last = [NoLast EXCEPT !.node = "start"]
    /\ steps = 0
    /\ record = DefaultCompanyInfo
    /\ result = NoResult
    /\ UtilsIdle

\* extract_info(state) called once, with whatever the LLM would answer
CallExtractInfo ==
    /\ pc = "extract_info"
    /\ \E resp \in Responses :
          /\ state' = extract_info(state, resp)
          /\ last' = [NoLast EXCEPT
                         !.node = "extract_info",
                         !.outcome = IF ExtractRaises(state, resp)
                                     THEN "error" ELSE "ok",
                         !.resp = resp]
    /\ pc' = "returned"
    /\ steps' = NextSteps
    /\ UNCHANGED <<record_vars, utils_vars>>

NodeNext == CallExtractInfo

NodeSpec == NodeInit /\ [][NodeNext]_vars

(***************************************************************************)
(* The methods of a CompanyInfo object, called on any object the model     *)
(* can be built as.                                                        *)
(***************************************************************************)
RecordInit ==
    /\ record \in CompanyInfos
    /\ result = NoResult
    /\ UtilsIdle
    /\ state = create_initial_state(CompanyName, SeedUrl)
    /\ pc = "idle"
    /\ last = NoLast
    /\ steps = 0

CallIsComplete ==
    /\ result' = [op |-> "is_complete", value |-> is_complete(record)]
    /\ UNCHANGED <<record, scraper_vars, utils_vars>>

CallGetMissingFields ==
    /\ result' = [op |-> "get_missing_fields",
                  value |-> get_missing_fields(record)]
    /\ UNCHANGED <<record, scraper_vars, utils_vars>>

CallCalculateAverageConfidence ==
    /\ result' = [op |-> "calculate_average_confidence",
                  value |-> calculate_average_confidence(record)]
    /\ UNCHANGED <<record, scraper_vars, utils_vars>>

RecordNext ==
    \/ CallIsComplete
    \/ CallGetMissingFields
    \/ CallCalculateAverageConfidence

RecordSpec == RecordInit /\ [][RecordNext]_vars

(***************************************************************************)
(* RateLimiter.wait_if_needed called by several threads.  The RateLimit    *)
(* is built with a small calls_per_minute and max_retries instead of the   *)
(* 50 (60, 30) and 3 of RateLimiter.__init__.                              *)
(***************************************************************************)
LimiterInit ==
    /\ \E c \in 1..MaxCallsPerMinute, m \in 0..MaxRetriesBound :
          /\ setup = [calls_per_minute |-> c, max_retries |-> m,
                      status |-> "ready"]
          /\ limits = [a \in ConfiguredApis |-> RateLimit(c, m)]
    /\ threads = [t \in Threads |-> IdleThread]
    /\ rt = NoRetry
    /\ MetricsIdle
    /\ record = DefaultCompanyInfo
    /\ result = NoResult
    /\ state = create_initial_state(CompanyName, SeedUrl)
    /\ pc = "idle"
    /\ last = NoLast
    /\ steps = 0

LimiterFrame ==
    UNCHANGED <<setup, rt, metrics_vars, scraper_vars, record_vars>>

\* wait_if_needed(api_name) is entered: lines 67-71
StartCall(t) ==
    /\ threads[t].pc = "idle"
    /\ \E api_name \in ApiNames :
          threads' = [threads EXCEPT ![t] =
              IF api_name \notin DOMAIN limits
              THEN [IdleThread EXCEPT !.api = api_name, !.outcome = "raised"]
              ELSE [IdleThread EXCEPT !.api = api_name, !.pc = "reset"]]
    /\ UNCHANGED limits
    /\ LimiterFrame

\* can_proceed: self._reset_if_needed()
CanProceedReset(t) ==
    /\ threads[t].pc = "reset"
    /\ limits' = [limits EXCEPT ![threads[t].api] = reset_if_needed(@)]
    /\ threads' = [threads EXCEPT ![t].pc = "test"]
    /\ LimiterFrame

\* can_proceed: the locked comparison, then line 74 or line 88 is next
CanProceedTest(t) ==
    /\ threads[t].pc = "test"
    /\ LET limit == limits[threads[t].api] IN
       threads' = [threads EXCEPT ![t] =
           IF can_proceed(limit) THEN [@ EXCEPT !.pc = "record"]
           ELSE IF RetriesExhausted(@.retries, limit)
           THEN [IdleThread EXCEPT !.outcome = "raised",
                                   !.retries = threads[t].retries]
           ELSE [@ EXCEPT !.pc = "wait_reset"]]
    /\ UNCHANGED limits
    /\ LimiterFrame

\* wait_time: self._reset_if_needed()
WaitTimeReset(t) ==
    /\ threads[t].pc = "wait_reset"
    /\ limits' = [limits EXCEPT ![threads[t].api] = reset_if_needed(@)]
    /\ threads' = [threads EXCEPT ![t].pc = "wait_read"]
    /\ LimiterFrame

\* wait_time: the locked read; time.sleep(wait_time) starts
WaitTimeRead(t) ==
    /\ threads[t].pc = "wait_read"
    /\ threads' = [threads EXCEPT
           ![t].pc = "sleep",
           ![t].sleep = wait_time(limits[threads[t].api])]
    /\ UNCHANGED limits
    /\ LimiterFrame

\* time.sleep returns; retries += 1
Wake(t) ==
    /\ threads[t].pc = "sleep"
    /\ threads[t].sleep = 0
    /\ threads' = [threads EXCEPT ![t].pc = "reset", ![t].retries = @ + 1]
    /\ UNCHANGED limits
    /\ LimiterFrame

\* limit.record_call(), and wait_if_needed returns
RecordCall(t) ==
    /\ threads[t].pc = "record"
    /\ limits' = [limits EXCEPT ![threads[t].api] = record_call(@)]
    /\ threads' = [threads EXCEPT
           ![t] = [IdleThread EXCEPT !.outcome = "recorded"]]
    /\ LimiterFrame

\* TickSeconds pass
Tick ==
    /\ limits' = [a \in DOMAIN limits |->
                    [limits[a] EXCEPT !.age = Min(Window, @ + TickSeconds)]]
    /\ threads' = [t \in Threads |->
                     [threads[t] EXCEPT !.sleep = Max(0, @ - TickSeconds)]]
    /\ LimiterFrame

LimiterNext ==
    \/ \E t \in Threads :
          \/ StartCall(t)
          \/ CanProceedReset(t)
          \/ CanProceedTest(t)
          \/ WaitTimeReset(t)
          \/ WaitTimeRead(t)
          \/ Wake(t)
          \/ RecordCall(t)
    \/ Tick

LimiterSpec == LimiterInit /\ [][LimiterNext]_vars

(***************************************************************************)
(* utils/retry.py: retry(...) validates its parameters, then the wrapper   *)
(* of the decorated function is called once.  Delays are in seconds.       *)
(***************************************************************************)
RetrySetups ==
    [max_retries : -1..MaxRetryCount,
     initial_delay : -1..MaxDelay,
     max_delay : -1..MaxDelay,
     exponential_base : 0..MaxBase,
     jitter : BOOLEAN,
     exceptions : {"None", "given"},
     status : {"new"},
     attempt : {0},
     invocations : {0},
     out : {"none"},
     sleeps : {0},
     delay : {0}]

\* RateLimit(calls_per_minute, max_retries) runs __post_init__
ConstructRateLimit ==
    /\ setup.status = "new"
    /\ IF RateLimitValid(setup.calls_per_minute, setup.max_retries)
       THEN /\ setup' = [setup EXCEPT !.status = "ready"]
            /\ limits' = [a \in ConfiguredApis |->
                             RateLimit(setup.calls_per_minute,
                                       setup.max_retries)]
       ELSE /\ setup' = [setup EXCEPT !.status = "RateLimitError"]
            /\ UNCHANGED limits
    /\ UNCHANGED <<threads, rt, metrics_vars, scraper_vars, record_vars>>

\* retry(max_retries, initial_delay, max_delay, exponential_base, ...) is
\* called: lines 59-67, then the decorator is returned
CallRetry ==
    /\ rt.status = "new"
    /\ rt' = [rt EXCEPT !.status =
                 IF RetryConfigValid(rt.max_retries, rt.initial_delay,
                                     rt.max_delay, rt.exponential_base)
                 THEN "decorated" ELSE "RetryConfigError"]
    /\ UNCHANGED <<limiter_vars, metrics_vars, scraper_vars, record_vars>>

FuncOutcomes == {"ok", "retryable", "other"}

\* exponential_base ** attempt
RECURSIVE Pow(_, _)
Pow(b, k) == IF k = 0 THEN 1 ELSE b * Pow(b, k - 1)

\* min(initial_delay * (exponential_base ** attempt), max_delay), in seconds
BackoffDelay(r, attempt) ==
    Min(r.initial_delay * Pow(r.exponential_base, attempt), r.max_delay)

\* 0.5 + random.random() in tenths: random() is 0.0, 0.5 or 0.9
JitterFactors == {5, 10, 14}
\* the factor of a delay that is left as it is
NoJitter == 10

\* the delay handed to time.sleep, in tenths of a second
SleptDelay(r, attempt, factor) == BackoffDelay(r, attempt) * factor

\* a mutant of WrapperPass: the last failure sleeps too before it raises
WrapperPass_SleepsAfterLast(r, out, factor) ==
    IF out = "ok"
    THEN [r EXCEPT !.invocations = @ + 1, !.out = out, !.status = "returned"]
    ELSE IF out = "other" /\ r.exceptions = "given"
    THEN [r EXCEPT !.invocations = @ + 1, !.out = out, !.status = "raised"]
    ELSE [r EXCEPT !.invocations = @ + 1, !.out = out,
                   !.status = IF r.attempt = r.max_retries
                              THEN "MaxRetriesExceededError" ELSE @,
                   !.sleeps = @ + 1,
                   !.delay = SleptDelay(r, r.attempt, factor),
                   !.attempt = IF r.attempt = r.max_retries THEN @ ELSE @ + 1]

\* one pass of the wrapper's `for attempt in range(max_retries + 1)` loop
\* (lines 74-102): func is invoked and returns (out = "ok"), raises an
\* exception of the `exceptions` types or raises another one; a failure that
\* is retried sleeps before the pass ends
WrapperPass(r, out, factor) ==
    IF out = "ok"
    THEN [r EXCEPT !.invocations = @ + 1, !.out = out, !.status = "returned"]
    ELSE IF out = "other" /\ r.exceptions = "given"
    THEN [r EXCEPT !.invocations = @ + 1, !.out = out, !.status = "raised"]
    ELSE IF r.attempt = r.max_retries
    THEN [r EXCEPT !.invocations = @ + 1, !.out = out,
                   !.status = "MaxRetriesExceededError"]
    ELSE [r EXCEPT !.invocations = @ + 1, !.out = out,
                   !.sleeps = @ + 1,
                   !.delay = SleptDelay(r, r.attempt, factor),
                   !.attempt = @ + 1]

\* the wrapper runs its next pass
Invoke ==
    /\ rt.status = "decorated"
    /\ \E out \in FuncOutcomes :
       \E factor \in (IF rt.jitter THEN JitterFactors ELSE {NoJitter}) :
          rt' = WrapperPass(rt, out, factor)
    /\ UNCHANGED <<limiter_vars, metrics_vars, scraper_vars, record_vars>>

SetupInit ==
    /\ \E c \in -1..MaxCallsPerMinute, m \in -1..MaxRetriesBound :
          setup = [calls_per_minute |-> c, max_retries |-> m, status |-> "new"]
    /\ limits = NoLimits
    /\ threads = [t \in Threads |-> IdleThread]
    /\ rt \in RetrySetups
    /\ MetricsIdle
    /\ record = DefaultCompanyInfo
    /\ result = NoResult
    /\ state = create_initial_state(CompanyName, SeedUrl)
    /\ pc = "idle"
    /\ last = NoLast
    /\ steps = 0

SetupNext == ConstructRateLimit \/ CallRetry \/ Invoke

SetupSpec == SetupInit /\ [][SetupNext]_vars

(***************************************************************************)
(* MetricsManager methods called by several threads on the global          *)
(* metrics_manager.  metrics_dir may hold files of earlier runs, loadable  *)
(* ("ok") or not ("corrupt").                                              *)
(***************************************************************************)
MetricsInit ==
    /\ manager \in [lock : {Free},
                     files : [FileNames -> {"none", "ok", "corrupt"}]]
    /\ callers = [t \in Threads |-> IdleCaller]
    /\ setup = NoSetup
    /\ limits = NoLimits
    /\ threads = [t \in Threads |-> IdleThread]
    /\ rt = NoRetry
    /\ record = DefaultCompanyInfo
    /\ result = NoResult
    /\ state = create_initial_state(CompanyName, SeedUrl)
    /\ pc = "idle"
    /\ last = NoLast
    /\ steps = 0

MetricsFrame ==
    UNCHANGED <<setup, limits, threads, rt, scraper_vars, record_vars>>

\* a thread calls save_metrics, load_metrics(filename) or get_all_metrics
\* and comes to the method's `with self._lock`
StartMethod(t) ==
    /\ callers[t].pc = "idle"
    /\ \E method \in {"save_metrics", "load_metrics", "get_all_metrics"} :
       \E filename \in FileNames :
          callers' = [callers EXCEPT ![t] =
              [IdleCaller EXCEPT
                  !.method = method,
                  !.filename = IF method = "get_all_metrics" THEN 0
                               ELSE filename,
                  !.pc = IF method = "save_metrics" THEN "save_lock"
                         ELSE IF method = "load_metrics" THEN "load_lock"
                         ELSE "all_lock"]]
    /\ UNCHANGED manager
    /\ MetricsFrame

\* save_metrics: `with self._lock` is entered
SaveAcquire(t) ==
    /\ callers[t].pc = "save_lock"
    /\ manager.lock = Free
    /\ manager' = [manager EXCEPT !.lock = t]
    /\ callers' = [callers EXCEPT ![t].pc = "save_write"]
    /\ MetricsFrame

\* save_metrics: the file is written or open() raises OSError; the lock is
\* released either way
SaveWrite(t) ==
    /\ callers[t].pc = "save_write"
    /\ \E written \in BOOLEAN :
          /\ manager' = [manager EXCEPT
                 !.lock = Free,
                 !.files[callers[t].filename] = IF written THEN "ok" ELSE @]
          /\ callers' = [callers EXCEPT
                 ![t].pc = "idle",
                 ![t].outcome = IF written THEN "returned" ELSE "MetricsError"]
    /\ MetricsFrame

\* get_all_metrics: `with self._lock` is entered, the directory is listed
GetAllAcquire(t) ==
    /\ callers[t].pc = "all_lock"
    /\ manager.lock = Free
    /\ manager' = [manager EXCEPT !.lock = t]
    /\ callers' = [callers EXCEPT ![t].pc = "all_loop",
                                  ![t].todo = JsonFiles(manager)]
    /\ MetricsFrame

\* get_all_metrics: the `for filepath in ...` loop calls load_metrics for the
\* next file, or is over: the list is returned and the lock released
GetAllLoop(t) ==
    /\ callers[t].pc = "all_loop"
    /\ IF callers[t].todo = {}
       THEN /\ manager' = [manager EXCEPT !.lock = Free]
            /\ callers' = [callers EXCEPT ![t].pc = "idle",
                                          ![t].outcome = "returned"]
       ELSE /\ \E f \in callers[t].todo :
                  callers' = [callers EXCEPT ![t].pc = "load_lock",
                                            ![t].filename = f,
                                            ![t].todo = @ \ {f}]
            /\ UNCHANGED manager
    /\ MetricsFrame

\* load_metrics: `with self._lock` is entered
LoadAcquire(t) ==
    /\ callers[t].pc = "load_lock"
    /\ manager.lock = Free
    /\ manager' = [manager EXCEPT !.lock = t]
    /\ callers' = [callers EXCEPT ![t].pc = "load_read"]
    /\ MetricsFrame

\* load_metrics: the file is read and parsed, or MetricsError is raised; the
\* lock is released either way.  Inside get_all_metrics the loop goes on
\* (a MetricsError is logged there).
LoadRead(t) ==
    /\ callers[t].pc = "load_read"
    /\ manager' = [manager EXCEPT !.lock = Free]
    /\ LET loaded == manager.files[callers[t].filename] = "ok" IN
       callers' = [callers EXCEPT ![t] =
           IF @.method = "get_all_metrics"
           THEN [@ EXCEPT !.pc = "all_loop",
                          !.metrics = IF loaded THEN @ \cup {callers[t].filename}
                                      ELSE @]
           ELSE [@ EXCEPT !.pc = "idle",
                          !.metrics = IF loaded THEN {callers[t].filename}
                                      ELSE {},
                          !.outcome = IF loaded THEN "returned"
                                      ELSE "MetricsError"]]
    /\ MetricsFrame

\* a step of thread t inside a method
CallerStep(t) ==
    \/ SaveAcquire(t)
    \/ SaveWrite(t)
    \/ GetAllAcquire(t)
    \/ GetAllLoop(t)
    \/ LoadAcquire(t)
    \/ LoadRead(t)

MetricsNext == \E t \in Threads : StartMethod(t) \/ CallerStep(t)

MetricsSpec == MetricsInit /\ [][MetricsNext]_vars

\* every thread that can go on again and again does go on: the scheduler
\* runs it and a free lock is handed to each thread waiting for it in turn
MetricsFairSpec == MetricsSpec /\ \A t \in Threads : SF_vars(CallerStep(t))

\* what scrape() does with the final state of the graph: raise
\* Exception(final_state["error"]) or return final_state["company_info"]
scrape_result(final_state) ==
    IF final_state.error # "None"
    THEN [raised |-> TRUE, value |-> final_state.error]
    ELSE [raised |-> FALSE, value |-> final_state.company_info]

(***************************************************************************)
(* Properties of a run                                                     *)
(***************************************************************************)
NoDuplicates(seq) ==
    \A i, j \in 1..Len(seq) : seq[i] = seq[j] => i = j

\* has_all_info as the specification words it: each of the four non-name
\* fields is non-empty and has a recorded confidence of at least 0.70
HasAllInfoStated(info) ==
    \A f \in {"company_location", "products_or_services", "company_overview",
              "target_clients"} :
        /\ info[f] # Empty
        /\ info.confidence_scores[f] # NoScore
        /\ info.confidence_scores[f] >= 70

AllFiveAt90(resp) ==
    /\ resp.kind = "json"
    /\ resp.has_cs
    /\ \A f \in Fields : resp.fields[f] \in Values /\ resp.cs[f] = 90

FetchFailures == {"http_error", "network_error", "empty"}

\* C1: every run terminates: whatever the collaborators do, the run
\* eventually is at END (done) or has set the fatal error.
C1_Termination == <>(pc = "END" \/ state.error # "None")

\* C2: once error is set the run halts at the next routing decision: a
\* state with error set is a state at END.
C2_ErrorHalts == (state.error # "None") => (pc = "END")

\* C3: when the very first Navigation Step fails to fetch the seed URL, mode
\* is searching, navigation_tries is still 0 and the Search Step runs next.
C3_SeedFailureThenSearch ==
    (steps = 1 /\ last.node = "scrape_website" /\ last.outcome \in FetchFailures)
        => /\ state.mode = "google"
           /\ state.navigation_tries = 0
           /\ pc = "search_google"

\* C4: a run stops only with enough information or with every budget
\* spent: it is never at END with has_all_info false, no error and page
\* texts gathered while search_tries is below its maximum.
C4_StopsOnlyWhenSpent ==
    ~ ( /\ pc = "END"
        /\ ~ HasAllInfoStated(state.company_info)
        /\ state.error = "None"
        /\ state.content # <<>>
        /\ state.search_tries < MaxSearchTries )

C6_VisitedUnique == NoDuplicates(state.visited_urls)

\* C7: every key of page_texts (content) is in visited_urls, and the key
\* set of page_texts only grows.
C7_ContentKeysVisited ==
    /\ [](Range(DictKeys(state.content)) \subseteq Range(state.visited_urls))
    /\ [][Range(DictKeys(state.content))
             \subseteq Range(DictKeys(state'.content))]_vars

C7_Witness ==
    /\ last.node = "search_google"
    /\ DictHas(state.content, SeedUrl)
    /\ DictHas(state.content, UrlX)
    /\ Len(state.visited_urls) >= 3

\* C8: both attempt counters stay within 0..5 and no step decreases one.
C8_CountersBounded ==
    /\ [](/\ state.navigation_tries \in 0..MaxNavigationTries
          /\ state.search_tries \in 0..MaxSearchTries)
    /\ [][/\ state'.navigation_tries >= state.navigation_tries
          /\ state'.search_tries >= state.search_tries]_vars

C8_Witness ==
    /\ state.search_tries = MaxSearchTries
    /\ state.navigation_tries = MaxNavigationTries - 1

\* C9: after an Extraction Step the run is at END whenever has_all_info
\* holds (four non-name fields non-empty with confidence >= 0.70), whatever
\* the mode and the remaining budgets are.
C9_AllInfoEnds ==
    [][(pc = "extract_info" /\ HasAllInfoStated(state'.company_info))
          => pc' = "END"]_vars

C9_Witness ==
    /\ last.node = "extract_info"
    /\ pc = "END"
    /\ state.mode = "website"
    /\ state.navigation_tries < MaxNavigationTries
    /\ state.company_info.confidence_scores["company_location"] = 70
    /\ state.company_info.confidence_scores["company_name"] = NoScore

\* C10: a Navigation Step whose fetch fails (non-2xx status, network error,
\* empty text), started with navigation_tries < 5, completes, sets mode to
\* searching and changes nothing else.
C10_FetchFailureFlipsMode ==
    [][(/\ pc = "scrape_website"
        /\ state.navigation_tries < MaxNavigationTries
        /\ last'.node = "scrape_website"
        /\ last'.outcome \in FetchFailures)
          => /\ state'.mode = "google"
             /\ state' = [state EXCEPT !.mode = "google"]
             /\ pc' \in {"extract_info", "END"}]_vars

C10_Witness ==
    /\ last.node = "scrape_website"
    /\ last.outcome = "empty"
    /\ state.mode = "google"
    /\ state.navigation_tries > 0
    /\ state.content # <<>>

\* the value a dict holds for key k (k is a key of d)
ValueAt(d, k) == d[CHOOSE i \in 1..Len(d) : d[i][1] = k][2]

\* the anchors of a page that are same-site keyword-matching candidates and
\* whose URL is not in `visited`
Candidates(anchors, seed, visited) ==
    SelectSeq(anchors,
              LAMBDA a : /\ a.kw
                         /\ IsSubstring(seed, a.full_url)
                         /\ a.full_url \notin Range(visited))

C12_SearchSkipsFailures ==
    [][(/\ pc = "search_google"
        /\ state.search_tries < MaxSearchTries
        /\ last'.node = "search_google"
        /\ last'.outcome = "ok")
          => LET keys == Range(DictKeys(state.content))
                 keys2 == Range(DictKeys(state'.content))
                 gained == last'.fetched \ Range(state.visited_urls)
             IN  /\ pc' \in {"extract_info", "END"}
                 /\ keys2 = keys \cup gained
                 /\ Len(state'.content) = Len(state.content) + Cardinality(gained)
                 /\ \A u \in gained : ValueAt(state'.content, u) = last'.text
                 /\ \A u \in keys :
                        ValueAt(state'.content, u) = ValueAt(state.content, u)
                 /\ Range(state'.visited_urls) =
                        Range(state.visited_urls) \cup gained
                 /\ Len(state'.visited_urls) =
                        Len(state.visited_urls) + Cardinality(gained)]_vars

\* two new result URLs, one fetched and one failing: one new page text
C12_Witness ==
    /\ last.node = "search_google"
    /\ last.outcome = "ok"
    /\ last.fetched = {UrlX}
    /\ last.failed = {UrlA}
    /\ DictKeys(state.content) = <<SeedUrl, UrlX>>
    /\ state.visited_urls = <<SeedUrl, UrlX>>

\* C13: every Search Step started with search_tries < 5 adds exactly one to
\* search_tries, whatever its outcome, a failing provider call included.
C13_SearchCountsEveryCall ==
    [][(/\ pc = "search_google"
        /\ state.search_tries < MaxSearchTries
        /\ last'.node = "search_google")
          => state'.search_tries = state.search_tries + 1]_vars

\* C14: an Extraction Step invoked with empty page_texts is a no-op: whatever
\* the LLM would have answered (a raise included) the state comes back as it
\* was, record unchanged and error unset.
C14_EmptyContentNoOp ==
    [][(/\ pc = "extract_info"
        /\ state.content = <<>>
        /\ last'.node = "extract_info")
          => /\ state' = state
             /\ state'.error = "None"
             /\ last'.outcome = "ok"]_vars

\* the call returned with empty content although the LLM would have raised
C14_Witness ==
    /\ pc = "returned"
    /\ state.content = <<>>
    /\ last.node = "extract_info"
    /\ last.resp.kind = "raise"
    /\ state.error = "None"
    /\ state.company_info = InitialCompanyInfo

\* C15: an Extraction Step that ends with error set (text that is not JSON,
\* or JSON lacking a confidence_scores entry of a returned field) leaves the
\* record exactly as it was.
C15_ErrorLeavesRecord ==
    [][(/\ pc = "extract_info"
        /\ last'.node = "extract_info"
        /\ last'.outcome = "error")
          => /\ state'.error # "None"
             /\ state'.company_info = state.company_info]_vars

\* C16: scrape() raises exactly when some Extraction Step of the run set
\* error and returns the final record otherwise: only an Extraction Step
\* that fails sets error, no step clears it, and at END scrape() raises iff
\* error is set.
C16_ErrorPropagates ==
    /\ [](pc = "END" =>
            /\ scrape_result(state).raised <=> (state.error # "None")
            /\ ~ scrape_result(state).raised =>
                   scrape_result(state).value = state.company_info)
    /\ [][/\ (last'.node = "extract_info" /\ last'.outcome = "error")
               => state'.error # "None"
          /\ (state.error # "None") => (state'.error # "None")
          /\ (state'.error # state.error)
               => (last'.node = "extract_info" /\ last'.outcome = "error")]_vars

\* a later Extraction Step succeeded and the run ended, error still set
C16_Witness ==
    /\ pc = "END"
    /\ state.error # "None"
    /\ last.node = "extract_info"
    /\ last.outcome = "ok"
    /\ last.resp.kind = "json"
    /\ scrape_result(state).raised

\* C17: every recorded confidence score lies in [0, 1]: a score outside
\* that range is never stored in the record.
C17_ConfidenceInRange ==
    \A f \in Fields :
        \/ state.company_info.confidence_scores[f] = NoScore
        \/ state.company_info.confidence_scores[f] \in 0..100

\* the fields of a CompanyInfo object that fail the per-field test
Failing(self) ==
    {f \in Fields : self[f] = Null
                    \/ self.confidence_scores[f] = NoScore
                    \/ self.confidence_scores[f] < CompleteThreshold}

C19_TestIsComplete ==
    result.op = "is_complete" =>
        /\ (/\ \A f \in Fields : record[f] = 1
            /\ \A f \in Fields : record.confidence_scores[f] = NoScore)
              => result.value
        /\ (/\ \A f \in Fields :
                  record[f] = IF f \in {"company_name", "company_location"}
                            THEN 1 ELSE Null
            /\ \A f \in Fields : record.confidence_scores[f] = NoScore)
              => ~ result.value

\* C20: get_missing_fields() never contains company_name; it is exactly the
\* failing fields among company_location, products_or_services,
\* company_overview, target_clients, in that order.
C20_MissingFields ==
    result.op = "get_missing_fields" =>
        result.value = SelectSeq(RouterFields, LAMBDA f : f \in Failing(record))

\* C21: get_missing_fields() returns the empty list iff each of
\* company_location, products_or_services, company_overview, target_clients
\* is non-null with confidence >= 0.75.
C21_EmptyIffFourComplete ==
    result.op = "get_missing_fields" =>
        ((result.value = <<>>) <=>
            (Failing(record) \cap Range(RouterFields) = {}))

\* the fields that have a recorded confidence
Scored(self) == {f \in Fields : self.confidence_scores[f] # NoScore}

RECURSIVE SetSum(_, _)
SetSum(S, cs) ==
    IF S = {} THEN 0
    ELSE LET f == CHOOSE x \in S : TRUE IN cs[f] + SetSum(S \ {f}, cs)

\* C22: calculate_average_confidence() is the sum of the recorded
\* confidences divided by their number, fields without a score not counted,
\* and exactly 0.0 for an empty mapping.
C22_AverageConfidence ==
    result.op = "calculate_average_confidence" =>
        IF Scored(record) = {}
        THEN result.value.num = 0
        ELSE result.value.num * Cardinality(Scored(record)) =
                 SetSum(Scored(record), record.confidence_scores)
                     * result.value.den

\* three scores of five recorded, two of them different
C22_Witness ==
    /\ result.op = "calculate_average_confidence"
    /\ Cardinality(Scored(record)) = 3
    /\ result.value = [num |-> 74 + 75 + 75, den |-> 3]

\* C23: with any number of threads calling wait_if_needed in any
\* interleaving, no API's _call_count ever exceeds its calls_per_minute.
C23_CountWithinLimit ==
    \A a \in DOMAIN limits : limits[a].call_count <= limits[a].calls_per_minute

\* thread t leaves wait_if_needed in this step with the given outcome
Ends(t, outcome) ==
    /\ threads[t].pc # "idle"
    /\ threads'[t].pc = "idle"
    /\ threads'[t].outcome = outcome

\* C24: a call of wait_if_needed for a configured API waits at most
\* max_retries times and ends by recording exactly one call or by raising
\* RateLimitError; it raises only after max_retries waits with the limit
\* still not passable, and then records nothing. A call for an unconfigured
\* name raises without waiting or counting.
C24_BoundedWaitAndRetry ==
    /\ [](\A t \in Threads :
            /\ threads[t].retries <= setup.max_retries
            /\ threads[t].pc = "idle" =>
                   threads[t].outcome \in {"none", "recorded", "raised"}
            /\ threads[t].api = "unknown" =>
                   /\ threads[t].pc = "idle"
                   /\ threads[t].outcome = "raised"
                   /\ threads[t].retries = 0)
    /\ [][/\ \A t \in Threads :
               /\ Ends(t, "raised") =>
                      /\ limits' = limits
                      /\ threads[t].retries = setup.max_retries
                      /\ ~ can_proceed(limits[threads[t].api])
               /\ Ends(t, "recorded") =>
                      limits' = [limits EXCEPT
                                    ![threads[t].api].call_count = @ + 1]
               /\ (threads[t].pc = "idle" /\ threads'[t].pc = "idle"
                     /\ threads'[t] # threads[t])
                    => /\ threads'[t].api = "unknown"
                       /\ limits' = limits
          /\ \A a \in DOMAIN limits :
               limits'[a].call_count > limits[a].call_count =>
                   \E t \in Threads :
                       Ends(t, "recorded") /\ threads[t].api = a]_vars

\* a call raised after waiting max_retries times, another one recorded
C24_Witness ==
    /\ setup.max_retries >= 1
    /\ \E t, u \in Threads :
          /\ threads[t].pc = "idle"
          /\ threads[t].outcome = "raised"
          /\ threads[t].retries = setup.max_retries
          /\ threads[u].outcome = "recorded"

\* C25: RateLimit(...) raises RateLimitError exactly when
\* calls_per_minute <= 0 or max_retries < 0, and retry(...) raises
\* RetryConfigError exactly when max_retries < 0, initial_delay <= 0,
\* max_delay < initial_delay or exponential_base <= 1, in both cases at
\* setup: no RateLimit object exists and the wrapped function has not been
\* invoked.
C25_ConfigErrorsAtSetup ==
    /\ setup.status \in {"ready", "RateLimitError"} =>
          /\ (setup.status = "RateLimitError") <=>
                 (setup.calls_per_minute < 1 \/ setup.max_retries < 0)
          /\ (setup.status = "RateLimitError") <=> (limits = NoLimits)
    /\ rt.status \notin {"none", "new"} =>
          /\ (rt.status = "RetryConfigError") <=>
                 \/ rt.max_retries < 0
                 \/ rt.initial_delay < 1
                 \/ rt.max_delay < rt.initial_delay
                 \/ rt.exponential_base < 2
          /\ rt.status = "RetryConfigError" => rt.invocations = 0

\* both constructions done: max_retries = 0 and max_delay = initial_delay
\* are accepted and the function was invoked, in a limiter that was refused
C25_Witness ==
    /\ setup.status = "RateLimitError"
    /\ setup.calls_per_minute = 0
    /\ rt.status = "returned"
    /\ rt.max_retries = 0
    /\ rt.max_delay = rt.initial_delay
    /\ rt.invocations = 1

\* C26: after an Extraction Step that leaves has_all_info false the next
\* step is the Navigation Step iff mode is "website" and navigation_tries < 5,
\* otherwise the Search Step iff mode is "google" and search_tries < 5; a
\* Navigation Step never starts in mode "google" and a Search Step never in
\* mode "website".
C26_RoutingAfterExtraction ==
    /\ [](/\ pc = "scrape_website" => state.mode = "website"
          /\ pc = "search_google" => state.mode = "google")
    /\ [][(last'.node = "extract_info"
           /\ ~ HasAllInfoStated(state'.company_info))
          => LET nav == /\ state'.mode = "website"
                        /\ state'.navigation_tries < 5
                 search == /\ state'.mode = "google"
                           /\ state'.search_tries < 5
             IN  /\ (pc' = "scrape_website") <=> nav
                 /\ (pc' = "search_google") <=> (~ nav /\ search)
                 /\ (pc' = "END") <=> (~ nav /\ ~ search)]_vars

\* the website budget is spent in mode "website": the run ends, no search
C26_Witness ==
    /\ last.node = "extract_info"
    /\ ~ HasAllInfoStated(state.company_info)
    /\ state.mode = "website"
    /\ state.navigation_tries = 5
    /\ pc = "END"

\* C27: a failed Navigation Step sets mode "google" for the rest of the run:
\* mode never returns to "website" and no Navigation Step runs any more.
C27_WebsiteModeAbandoned ==
    [][/\ (last'.node = "scrape_website" /\ last'.outcome \in FetchFailures)
           => state'.mode = "google"
       /\ state.mode = "google"
           => /\ state'.mode = "google"
              /\ last'.node # "scrape_website"
              /\ pc' # "scrape_website"]_vars

\* two steps after a failed Navigation Step that was not the first one
C27_Witness ==
    /\ state.mode = "google"
    /\ state.navigation_tries >= 1
    /\ state.navigation_tries < 5
    /\ state.search_tries >= 2
    /\ last.node = "extract_info"
    /\ pc = "search_google"

C29_LastWriterWins ==
    [][(last'.node = "extract_info" /\ last'.outcome = "ok")
         => \A f \in Fields :
              IF last'.resp.fields[f] \in Values
              THEN /\ state'.company_info[f] = last'.resp.fields[f]
                   /\ state'.company_info.confidence_scores[f] =
                          last'.resp.cs[f]
              ELSE /\ state'.company_info[f] = state.company_info[f]
                   /\ state'.company_info.confidence_scores[f] =
                          state.company_info.confidence_scores[f]]_vars

\* C30: no step empties a record field that was non-empty or removes a
\* recorded confidence, and Navigation and Search Steps leave the record as
\* it is.
C30_AdditiveMerge ==
    [][/\ \A f \in Fields :
            /\ state.company_info[f] # Empty => state'.company_info[f] # Empty
            /\ state.company_info.confidence_scores[f] # NoScore
                 => state'.company_info.confidence_scores[f] # NoScore
       /\ Len(state'.company_info.sources) >= Len(state.company_info.sources)
       /\ last'.node \in {"scrape_website", "search_google"}
            => state'.company_info = state.company_info]_vars

\* a Search Step that fetched a page, run on a record filled before
C30_Witness ==
    /\ last.node = "search_google"
    /\ last.fetched # {}
    /\ state.company_info.company_location = 2
    /\ state.company_info.confidence_scores["company_location"] = 69

\* seq continues pre: nothing of pre is removed or reordered
IsPrefix(pre, seq) ==
    /\ Len(pre) <= Len(seq)
    /\ \A i \in 1..Len(pre) : seq[i] = pre[i]

\* C31: record.sources never holds a URL twice, only holds keys of
\* page_texts and only grows at its end; after an Extraction Step without
\* error it holds every key of page_texts.
C31_SourcesFirstSeenOrder ==
    /\ [](/\ NoDuplicates(state.company_info.sources)
          /\ Range(state.company_info.sources)
                \subseteq Range(DictKeys(state.content)))
    /\ [][/\ IsPrefix(state.company_info.sources,
                       state'.company_info.sources)
          /\ (last'.node = "extract_info" /\ last'.outcome = "ok")
               => Range(DictKeys(state'.content))
                     \subseteq Range(state'.company_info.sources)]_vars

\* a second extraction added a second source behind the first
C31_Witness ==
    /\ last.node = "extract_info"
    /\ last.outcome = "ok"
    /\ Len(state.company_info.sources) = 2
    /\ state.company_info.sources[1] = SeedUrl

\* the wrapper has returned or raised
WrapperEnded == rt.status \in {"returned", "raised", "MaxRetriesExceededError"}

\* C32: the wrapper invokes the function at most max_retries + 1 times; it
\* returns at the first success and invokes nothing more; an exception that
\* is not of the `exceptions` types propagates at once; when all
\* max_retries + 1 invocations fail with retried exceptions it raises
\* MaxRetriesExceededError; it sleeps once between two invocations and never
\* after the last.
C32_RetryAttempts ==
    /\ [](/\ rt.status = "decorated" =>
                /\ rt.invocations <= rt.max_retries
                /\ rt.sleeps = rt.invocations
          /\ WrapperEnded =>
                /\ rt.invocations >= 1
                /\ rt.invocations <= rt.max_retries + 1
                /\ rt.sleeps = rt.invocations - 1
          /\ rt.status = "returned" => rt.out = "ok"
          /\ rt.status = "raised" =>
                (rt.out = "other" /\ rt.exceptions = "given")
          /\ rt.status = "MaxRetriesExceededError" =>
                /\ rt.invocations = rt.max_retries + 1
                /\ rt.out # "ok"
                /\ ~ (rt.out = "other" /\ rt.exceptions = "given"))
    /\ [][/\ WrapperEnded => rt' = rt
          /\ rt'.invocations > rt.invocations =>
                /\ rt'.invocations = rt.invocations + 1
                /\ rt'.out = "ok" => rt'.status = "returned"
                /\ (rt'.out = "other" /\ rt.exceptions = "given")
                     => rt'.status = "raised"]_vars

\* every allowed invocation failed: two sleeps, three invocations
C32_Witness ==
    /\ rt.status = "MaxRetriesExceededError"
    /\ rt.max_retries = 2
    /\ rt.invocations = 3
    /\ rt.sleeps = 2

\* C33: the delay slept between two retries is at most max_delay, with
\* jitter as well as without; without jitter the delay before retry k is
\* min(initial_delay * exponential_base^k, max_delay).
C33_DelayAtMostMaxDelay ==
    rt.sleeps >= 1 =>
        /\ rt.delay <= rt.max_delay * 10
        /\ ~ rt.jitter =>
              LET k == rt.sleeps - 1
                  grown == rt.initial_delay * Pow(rt.exponential_base, k)
              IN  rt.delay = 10 * (IF grown < rt.max_delay
                                   THEN grown ELSE rt.max_delay)

\* C34: a call of get_all_metrics() by any thread returns, with one entry
\* per loadable file, also when metrics_dir holds *.json files; no thread
\* waits forever for the manager's lock.
C34_GetAllMetricsReturns ==
    /\ \A t \in Threads :
          (callers[t].method = "get_all_metrics" /\ callers[t].pc # "idle")
              ~> (callers[t].pc = "idle")
    /\ [](\A t \in Threads :
            (/\ callers[t].method = "get_all_metrics"
             /\ callers[t].outcome = "returned")
              => callers[t].metrics \subseteq
                     {f \in FileNames : manager.files[f] = "ok"})

====
